---------------------------- MODULE Spec2Model ----------------------------
(***************************************************************************)
(* A model of il.go of tf2pulumi: the builder that turns a parsed          *)
(* Terraform configuration into a dependency graph (buildGraph and the     *)
(* builders, the property walker, buildValue, buildDeps, getProviderInfo). *)
(*                                                                         *)
(* Representation.                                                         *)
(*   - A symbolic variable name ("var.x", "aws_instance.web.id") is the    *)
(*     sequence of its dot-separated segments (<<"var","x">>): the prefix  *)
(*     tests and splits of the classifier are computed on the segments.    *)
(*   - A raw string is the sequence of its HIL parts: literal text, the    *)
(*     escape "$${", an interpolated variable access, or a malformed part. *)
(*   - A raw value is a record tagged by its reflect.Kind (field k).       *)
(*   - A node (the Go pointer) is identified by <<kind, i>>: the i-th      *)
(*     declaration of that kind in the configuration, for which phase 1    *)
(*     allocates the node.  The name tables map keys to these pointers.    *)
(*   - An error is [e |-> class, at |-> the name the message carries].     *)
(*   - Iteration over a Go map is in an unspecified order: where the order *)
(*     decides the result (which error is met first) the model takes every *)
(*     result some order produces.                                         *)
(***************************************************************************)
EXTENDS Integers, Sequences, FiniteSets, Bags, TLC

VARIABLES conf, b, nodes, pc, built, graph, err, plugin, run, prev, call

vars == <<conf, b, nodes, pc, built, graph, err, plugin, run, prev, call>>

(***************************************************************************)
(* Bounds of the model.                                                    *)
(***************************************************************************)
\* variable accesses in one interpolated string (inputs of buildValue)
MaxRefs == 2
\* length of a depends_on list (inputs of buildDeps)
MaxDependsOn == 2
\* number of places where a configuration differs from the base one
MaxVaried == 2

NoErr == [e |-> "nil", at |-> <<>>]

Error(class, at) == [e |-> class, at |-> at]

Range(f) == {f[x] : x \in DOMAIN f}

(***************************************************************************)
(* Raw values.                                                             *)
(***************************************************************************)
Text(s) == [t |-> "text", v |-> s]
Esc == [t |-> "esc"]
Var(n) == [t |-> "var", n |-> n]
Bad == [t |-> "bad"]

VNil == [k |-> "nil"]
VBool(x) == [k |-> "bool", b |-> x]
VInt(x) == [k |-> "int", i |-> x]
VFloat(x) == [k |-> "float", f |-> x]
VStr(parts) == [k |-> "string", s |-> parts]
VSlice(elems) == [k |-> "slice", e |-> elems]
VMap(m) == [k |-> "map", kk |-> "string", m |-> m]
VMapKeyed(kk, m) == [k |-> "map", kk |-> kk, m |-> m]
VOther(t) == [k |-> "other", t |-> t]

\* the string "${n}"
Ref(n) == VStr(<<Var(n)>>)
\* a literal string
Lit(s) == VStr(<<Text(s)>>)
EmptyMap == [x \in {} |-> VNil]

(***************************************************************************)
(* hil.Parse and the visit of the parsed tree (walkPrimitive).             *)
(***************************************************************************)
RECURSIVE ConcatParts(_)
ConcatParts(parts) ==
    IF parts = <<>> THEN ""
    ELSE (IF Head(parts).t = "esc" THEN "${" ELSE Head(parts).v)
         \o ConcatParts(Tail(parts))

\* hil.Parse: a syntax error, a string literal node, or an output node with
\* one child per part.
hilParse(parts) ==
    IF \E i \in DOMAIN parts : parts[i].t = "bad"
    THEN [ok |-> FALSE, node |-> "nil"]
    ELSE IF \A i \in DOMAIN parts : parts[i].t \in {"text", "esc"}
    THEN [ok |-> TRUE, node |-> "Literal", typex |-> "TypeString",
          value |-> ConcatParts(parts)]
    ELSE [ok |-> TRUE, node |-> "Output", exprs |-> parts]

\* rootNode.Accept(...): the names of the VariableAccess nodes of the tree
VariableAccesses(root) ==
    IF root.node = "Output"
    THEN {root.exprs[i].n : i \in {j \in DOMAIN root.exprs : root.exprs[j].t = "var"}}
    ELSE {}

\* walkPrimitive: [err, val, names]
walkPrimitive(p) ==
    IF p.k \in {"bool", "int", "float"}
    THEN [err |-> NoErr, val |-> p, names |-> {}]
    ELSE IF p.k = "string"
    THEN LET root == hilParse(p.s) IN
         IF ~root.ok
         THEN [err |-> Error("ExpressionSyntaxError", <<>>), val |-> VNil, names |-> {}]
         ELSE IF root.node = "Literal" /\ root.typex = "TypeString"
         THEN [err |-> NoErr, val |-> [k |-> "lit", v |-> root.value], names |-> {}]
         ELSE [err |-> NoErr, val |-> [k |-> "hil", ast |-> root],
               names |-> VariableAccesses(root)]
    ELSE [err |-> Error("UnsupportedType", <<>>), val |-> VNil, names |-> {}]

(***************************************************************************)
(* The property walker.  WalkErrs(v) is the set of errors walk(v) can      *)
(* return (empty when it succeeds); WalkVal and WalkNames are its result   *)
(* and the names left in walker.deps when it succeeds.                     *)
(***************************************************************************)
RECURSIVE WalkErrs(_)
RECURSIVE FirstErrs(_)
\* walkSlice: the elements in order, the first failing element's error
FirstErrs(elems) ==
    IF elems = <<>> THEN {}
    ELSE IF WalkErrs(Head(elems)) # {} THEN WalkErrs(Head(elems))
    ELSE FirstErrs(Tail(elems))

WalkErrs(v) ==
    CASE v.k \in {"bool", "int", "float", "string"} ->
            (IF walkPrimitive(v).err = NoErr THEN {} ELSE {walkPrimitive(v).err})
      [] v.k = "slice" -> FirstErrs(v.e)
      [] v.k = "map" ->
            IF v.kk # "string" THEN {Error("InvalidKeyType", <<>>)}
            ELSE UNION {WalkErrs(v.m[key]) : key \in DOMAIN v.m}
      [] OTHER -> {Error("UnsupportedType", <<>>)}

RECURSIVE WalkVal(_)
WalkVal(v) ==
    CASE v.k \in {"bool", "int", "float", "string"} -> walkPrimitive(v).val
      [] v.k = "slice" -> [k |-> "slice", e |-> [i \in DOMAIN v.e |-> WalkVal(v.e[i])]]
      [] v.k = "map" -> [k |-> "map", m |-> [key \in DOMAIN v.m |-> WalkVal(v.m[key])]]
      [] OTHER -> VNil

RECURSIVE WalkNames(_)
WalkNames(v) ==
    CASE v.k \in {"bool", "int", "float", "string"} -> walkPrimitive(v).names
      [] v.k = "slice" -> UNION {WalkNames(v.e[i]) : i \in DOMAIN v.e}
      [] v.k = "map" -> UNION {WalkNames(v.m[key]) : key \in DOMAIN v.m}
      [] OTHER -> {}

(***************************************************************************)
(* config.NewInterpolatedVariable: the class of a symbolic name.           *)
(***************************************************************************)
NoId == <<>>

Classified(cls, name, id) == [ok |-> TRUE, cls |-> cls, name |-> name, id |-> id]

NewInterpolatedVariable(n) ==
    LET malformed == [ok |-> FALSE, cls |-> "error", name |-> "", id |-> NoId]
        prefix(p) == Len(n) >= 2 /\ n[1] = p
    IN  CASE prefix("count") -> Classified("count", "", NoId)
          [] prefix("path") -> Classified("path", "", NoId)
          [] prefix("self") -> Classified("self", "", NoId)
          [] prefix("terraform") -> Classified("terraform", "", NoId)
          [] prefix("var") ->
                IF Len(n) > 3 \/ (Len(n) = 3 /\ n[3] # "") THEN malformed
                ELSE Classified("user", n[2], NoId)
          [] prefix("local") ->
                IF Len(n) > 2 THEN malformed ELSE Classified("local", n[2], NoId)
          [] prefix("module") ->
                IF Len(n) < 3 THEN malformed ELSE Classified("module", n[2], NoId)
          [] Len(n) = 1 -> Classified("simple", "", NoId)
          [] prefix("data") ->
                IF Len(n) < 4 THEN malformed
                ELSE Classified("resource", n[3], <<"data", n[2], n[3]>>)
          [] OTHER ->
                IF Len(n) < 3 THEN malformed
                ELSE Classified("resource", n[2], <<n[1], n[2]>>)


(***************************************************************************)
(* Nodes.  A nil pointer is NoNode, a nil map or interface is VNil, a nil  *)
(* slice is the empty sequence; a dependency list, whose order is that of  *)
(* a map iteration, is kept as the bag of its elements.                    *)
(***************************************************************************)
NoNode == <<"nil", 0>>
NoInfo == [loaded |-> FALSE, of |-> ""]

providerNode(c) ==
    [kind |-> "provider", config |-> c, deps |-> EmptyBag, properties |-> VNil,
     info |-> NoInfo]

resourceNode(c) ==
    [kind |-> "resource", config |-> c, provider |-> NoNode, deps |-> EmptyBag,
     explicitDeps |-> <<>>, properties |-> VNil]

outputNode(c) ==
    [kind |-> "output", config |-> c, deps |-> EmptyBag, explicitDeps |-> <<>>,
     value |-> VNil]

localNode(c) ==
    [kind |-> "local", config |-> c, deps |-> EmptyBag, properties |-> VNil]

variableNode(c) ==
    [kind |-> "variable", config |-> c, defaultValue |-> VNil]

dependencies(n) == IF n.kind = "variable" THEN EmptyBag ELSE n.deps

\* newBuilder: five empty tables
newBuilder ==
    [providers |-> <<>>, resources |-> <<>>, outputs |-> <<>>, locals |-> <<>>,
     variables |-> <<>>]

(***************************************************************************)
(* buildValue.                                                             *)
(***************************************************************************)
\* Faulty variants of the loop body, which the dependency and the order
\* properties must tell from the real one: one has no case for a user
\* variable, one resolves a resource only once it is built.
ResolveNameNoUser(n, tables) ==
    LET tfVar == NewInterpolatedVariable(n)
        fail(e) == [err |-> e, deps |-> {}]
    IN  CASE ~tfVar.ok -> fail(Error("InvalidVariableName", n))
          [] tfVar.cls = "module" -> fail(Error("UnsupportedReference", <<tfVar.name>>))
          [] tfVar.cls = "local" ->
                IF tfVar.name \in DOMAIN tables.locals
                THEN [err |-> NoErr, deps |-> {tables.locals[tfVar.name]}]
                ELSE fail(Error("UnknownLocal", <<tfVar.name>>))
          [] tfVar.cls = "resource" ->
                IF tfVar.id \in DOMAIN tables.resources
                THEN [err |-> NoErr, deps |-> {tables.resources[tfVar.id]}]
                ELSE fail(Error("UnknownResource", <<tfVar.name>>))
          [] OTHER -> [err |-> NoErr, deps |-> {}]

ResolveNameBuiltOnly(n, tables) ==
    LET tfVar == NewInterpolatedVariable(n)
        fail(e) == [err |-> e, deps |-> {}]
    IN  CASE ~tfVar.ok -> fail(Error("InvalidVariableName", n))
          [] tfVar.cls \in {"count", "path", "self", "simple", "terraform"} ->
                [err |-> NoErr, deps |-> {}]
          [] tfVar.cls = "module" -> fail(Error("UnsupportedReference", <<tfVar.name>>))
          [] tfVar.cls = "local" ->
                IF tfVar.name \in DOMAIN tables.locals
                THEN [err |-> NoErr, deps |-> {tables.locals[tfVar.name]}]
                ELSE fail(Error("UnknownLocal", <<tfVar.name>>))
          [] tfVar.cls = "resource" ->
                IF tfVar.id \in DOMAIN tables.resources
                   /\ tables.resources[tfVar.id] \in built
                THEN [err |-> NoErr, deps |-> {tables.resources[tfVar.id]}]
                ELSE fail(Error("UnknownResource", <<tfVar.name>>))
          [] tfVar.cls = "user" ->
                IF tfVar.name \in DOMAIN tables.variables
                THEN [err |-> NoErr, deps |-> {tables.variables[tfVar.name]}]
                ELSE fail(Error("UnknownVariable", <<tfVar.name>>))

\* the body of the loop over walker.deps, for one name: [err, deps]
ResolveName(n, tables) ==
    LET tfVar == NewInterpolatedVariable(n)
        fail(e) == [err |-> e, deps |-> {}]
    IN  CASE ~tfVar.ok -> fail(Error("InvalidVariableName", n))
          [] tfVar.cls \in {"count", "path", "self", "simple", "terraform"} ->
                [err |-> NoErr, deps |-> {}]
          [] tfVar.cls = "module" -> fail(Error("UnsupportedReference", <<tfVar.name>>))
          [] tfVar.cls = "local" ->
                IF tfVar.name \in DOMAIN tables.locals
                THEN [err |-> NoErr, deps |-> {tables.locals[tfVar.name]}]
                ELSE fail(Error("UnknownLocal", <<tfVar.name>>))
          [] tfVar.cls = "resource" ->
                IF tfVar.id \in DOMAIN tables.resources
                THEN [err |-> NoErr, deps |-> {tables.resources[tfVar.id]}]
                ELSE fail(Error("UnknownResource", <<tfVar.name>>))
          [] tfVar.cls = "user" ->
                IF tfVar.name \in DOMAIN tables.variables
                THEN [err |-> NoErr, deps |-> {tables.variables[tfVar.name]}]
                ELSE fail(Error("UnknownVariable", <<tfVar.name>>))

ValueFailure(e) == [err |-> e, val |-> VNil, deps |-> {}, depsNil |-> TRUE]

\* A faulty buildValue that drops the names it cannot resolve.
buildValueDropping(v, tables) ==
    IF v = VNil
    THEN {[err |-> NoErr, val |-> VNil, deps |-> {}, depsNil |-> TRUE]}
    ELSE IF WalkErrs(v) # {}
    THEN {ValueFailure(e) : e \in WalkErrs(v)}
    ELSE {[err |-> NoErr, val |-> WalkVal(v),
           deps |-> UNION {ResolveName(n, tables).deps : n \in WalkNames(v)},
           depsNil |-> FALSE]}

\* The results buildValue(v) can return: the walk's error, else the error
\* of the first failing name the iteration over walker.deps meets (any
\* failing name can be the first), else the walked value and the nodes named.
buildValue(v, tables) ==
    IF v = VNil
    THEN {[err |-> NoErr, val |-> VNil, deps |-> {}, depsNil |-> TRUE]}
    ELSE IF WalkErrs(v) # {}
    THEN {ValueFailure(e) : e \in WalkErrs(v)}
    ELSE LET names == WalkNames(v)
             failing == {n \in names : ResolveName(n, tables).err # NoErr}
         IN  IF failing # {}
             THEN {ValueFailure(ResolveName(n, tables).err) : n \in failing}
             ELSE {[err |-> NoErr, val |-> WalkVal(v),
                    deps |-> UNION {ResolveName(n, tables).deps : n \in names},
                    depsNil |-> FALSE]}

\* buildProperties: buildValue of the raw map
buildProperties(raw, tables) == buildValue(raw, tables)

(***************************************************************************)
(* buildDeps.                                                              *)
(***************************************************************************)
HasModulePrefix(name) == Len(name) >= 2 /\ name[1] = "module"

\* the error of the loop's iteration on dependsOn[i], NoErr when it passes
DependsOnErr(name, tables) ==
    IF HasModulePrefix(name) THEN Error("UnsupportedReference", name)
    ELSE IF name \notin DOMAIN tables.resources THEN Error("UnknownResource", name)
    ELSE NoErr

\* A faulty buildDeps that appends every explicit dependency to the list.
buildDepsAppending(deps, dependsOn, tables) ==
    LET bad == {i \in DOMAIN dependsOn : DependsOnErr(dependsOn[i], tables) # NoErr}
    IN  IF bad # {}
        THEN LET first == CHOOSE i \in bad : \A j \in bad : i <= j
             IN  [err |-> DependsOnErr(dependsOn[first], tables),
                  allDeps |-> EmptyBag, explicitDeps |-> <<>>]
        ELSE LET explicitDeps == [i \in DOMAIN dependsOn |-> tables.resources[dependsOn[i]]]
                 times(n) == Cardinality({i \in DOMAIN dependsOn : explicitDeps[i] = n})
             IN  [err |-> NoErr,
                  allDeps |-> [n \in deps \cup Range(explicitDeps) |->
                                 (IF n \in deps THEN 1 ELSE 0) + times(n)],
                  explicitDeps |-> explicitDeps]

buildDeps(deps, dependsOn, tables) ==
    LET bad == {i \in DOMAIN dependsOn : DependsOnErr(dependsOn[i], tables) # NoErr}
    IN  IF bad # {}
        THEN LET first == CHOOSE i \in bad : \A j \in bad : i <= j
             IN  [err |-> DependsOnErr(dependsOn[first], tables),
                  allDeps |-> EmptyBag, explicitDeps |-> <<>>]
        ELSE LET explicitDeps == [i \in DOMAIN dependsOn |-> tables.resources[dependsOn[i]]]
             IN  [err |-> NoErr,
                  allDeps |-> SetToBag(deps \cup Range(explicitDeps)),
                  explicitDeps |-> explicitDeps]

(***************************************************************************)
(* getProviderInfo.  o is what the plugin does when it is looked up and    *)
(* run: [lookup, start, decode, exit].                                     *)
(***************************************************************************)
PluginOutcomes ==
    [lookup : {"error", "empty", "found"}, start : BOOLEAN, decode : BOOLEAN,
     exit : {0, 1}]

\* A faulty getProviderInfo that returns the decode error before it waits.
getProviderInfoDecodeFirst(p, o) ==
    LET fail(e) == [err |-> e, info |-> NoInfo] IN
    CASE o.lookup = "error" -> fail(Error("PluginPathError", <<p.config.Name>>))
      [] o.lookup = "empty" -> fail(Error("PluginNotFound", <<p.config.Name>>))
      [] ~o.start -> fail(Error("PluginStartError", <<>>))
      [] ~o.decode -> fail(Error("DecodeError", <<>>))
      [] o.exit # 0 -> fail(Error("PluginExecutionError", <<>>))
      [] OTHER -> [err |-> NoErr, info |-> [loaded |-> TRUE, of |-> p.config.Name]]

getProviderInfo(p, o) ==
    LET fail(e) == [err |-> e, info |-> NoInfo] IN
    CASE o.lookup = "error" -> fail(Error("PluginPathError", <<p.config.Name>>))
      [] o.lookup = "empty" -> fail(Error("PluginNotFound", <<p.config.Name>>))
      [] ~o.start -> fail(Error("PluginStartError", <<>>))
      [] o.exit # 0 -> fail(Error("PluginExecutionError", <<>>))
      [] ~o.decode -> fail(Error("DecodeError", <<>>))
      [] OTHER -> [err |-> NoErr, info |-> [loaded |-> TRUE, of |-> p.config.Name]]

(***************************************************************************)
(* The builders.  Each gives the set of results [node, err] the call can   *)
(* have: the node as the call leaves it and the error returned.            *)
(***************************************************************************)
buildProvider(p, o, tables) ==
    LET got == getProviderInfo(p, o) IN
    IF got.err # NoErr THEN {[node |-> p, err |-> got.err]}
    ELSE LET p1 == [p EXCEPT !.info = got.info] IN
         {IF r.err # NoErr THEN [node |-> p1, err |-> r.err]
          ELSE [node |-> [p1 EXCEPT !.properties = r.val,
                                    !.deps = buildDeps(r.deps, <<>>, tables).allDeps],
                err |-> NoErr]
          : r \in buildProperties(p.config.RawConfig, tables)}

\* Resource.ProviderFullName: the explicit provider, else the resource
\* type up to its first underscore
TypePrefix(type) ==
    CASE type = "aws_instance" -> "aws"
      [] type = "gcp_disk" -> "gcp"
      [] OTHER -> type

ProviderFullName(c) == IF c.Provider # "" THEN c.Provider ELSE TypePrefix(c.Type)

\* Resource.Id
ResourceId(c) == IF c.Mode = "data" THEN <<"data", c.Type, c.Name>> ELSE <<c.Type, c.Name>>

\* A faulty buildResource that builds a resource without a provider.
buildResourceUnlinked(r, tables) ==
    LET providerName == ProviderFullName(r.config)
        r1 == IF providerName \in DOMAIN tables.providers
              THEN [r EXCEPT !.provider = tables.providers[providerName]]
              ELSE r
    IN  {IF v.err # NoErr THEN [node |-> r1, err |-> v.err]
         ELSE LET d == buildDeps(v.deps, r.config.DependsOn, tables) IN
              IF d.err # NoErr THEN [node |-> r1, err |-> d.err]
              ELSE [node |-> [r1 EXCEPT !.properties = v.val, !.deps = d.allDeps,
                                        !.explicitDeps = d.explicitDeps],
                    err |-> NoErr]
         : v \in buildProperties(r.config.RawConfig, tables)}

buildResource(r, tables) ==
    LET providerName == ProviderFullName(r.config) IN
    IF providerName \notin DOMAIN tables.providers
    THEN {[node |-> r, err |-> Error("MissingProvider", ResourceId(r.config))]}
    ELSE LET r1 == [r EXCEPT !.provider = tables.providers[providerName]] IN
         {IF v.err # NoErr THEN [node |-> r1, err |-> v.err]
          ELSE LET d == buildDeps(v.deps, r.config.DependsOn, tables) IN
               IF d.err # NoErr THEN [node |-> r1, err |-> d.err]
               ELSE [node |-> [r1 EXCEPT !.properties = v.val, !.deps = d.allDeps,
                                         !.explicitDeps = d.explicitDeps],
                     err |-> NoErr]
          : v \in buildProperties(r.config.RawConfig, tables)}

\* A faulty promotion that does not count the properties.
OutputValueAnySize(props) ==
    IF "value" \in DOMAIN props.m THEN props.m["value"] ELSE props

\* the promotion of the single property "value"
OutputValue(props) ==
    IF Cardinality(DOMAIN props.m) = 1 /\ "value" \in DOMAIN props.m
    THEN props.m["value"]
    ELSE props

buildOutput(o, tables) ==
    {IF v.err # NoErr THEN [node |-> o, err |-> v.err]
     ELSE LET d == buildDeps(v.deps, o.config.DependsOn, tables) IN
          IF d.err # NoErr THEN [node |-> o, err |-> d.err]
          ELSE [node |-> [o EXCEPT !.value = OutputValue(v.val), !.deps = d.allDeps,
                                   !.explicitDeps = d.explicitDeps],
                err |-> NoErr]
     : v \in buildProperties(o.config.RawConfig, tables)}

buildLocal(l, tables) ==
    {IF v.err # NoErr THEN [node |-> l, err |-> v.err]
     ELSE [node |-> [l EXCEPT !.properties = v.val,
                              !.deps = buildDeps(v.deps, <<>>, tables).allDeps],
           err |-> NoErr]
     : v \in buildProperties(l.config.RawConfig, tables)}

\* A faulty buildVariable that accepts a default with dependencies.
buildVariableUnchecked(v, tables) ==
    {IF d.err # NoErr THEN [node |-> v, err |-> d.err]
     ELSE [node |-> [v EXCEPT !.defaultValue = d.val], err |-> NoErr]
     : d \in buildValue(v.config.Default, tables)}

buildVariable(v, tables) ==
    {IF d.err # NoErr THEN [node |-> v, err |-> d.err]
     ELSE IF Cardinality(d.deps) # 0
     THEN [node |-> v, err |-> Error("VariableHasDependencies", <<v.config.Name>>)]
     ELSE [node |-> [v EXCEPT !.defaultValue = d.val], err |-> NoErr]
     : d \in buildValue(v.config.Default, tables)}


(***************************************************************************)
(* Configurations: the input of buildGraph.  A configuration is the base   *)
(* one (a provider, a resource, an output, a local and a variable, all     *)
(* valid) changed in at most MaxVaried of eight places, each place having  *)
(* a short list of alternatives.                                           *)
(***************************************************************************)
ProviderConfig(name, alias, raw) == [Name |-> name, Alias |-> alias, RawConfig |-> VMap(raw)]

Resource(type, name, provider, raw, dependsOn) ==
    [Mode |-> "managed", Type |-> type, Name |-> name, Provider |-> provider,
     RawConfig |-> VMap(raw), DependsOn |-> dependsOn]

Output(name, raw, dependsOn) == [Name |-> name, RawConfig |-> VMap(raw), DependsOn |-> dependsOn]

Local(name, raw) == [Name |-> name, RawConfig |-> VMap(raw)]

Variable(name, default) == [Name |-> name, Default |-> default]

WebId == <<"aws_instance", "web">>
DbId == <<"aws_instance", "db">>
WebRef == Ref(<<"aws_instance", "web", "id">>)
DbRef == Ref(<<"aws_instance", "db", "id">>)
VarX == Ref(<<"var", "x">>)
LocalL == Ref(<<"local", "l">>)
ModuleRef == Ref(<<"module", "m", "out">>)

ProviderOpts ==
    << <<ProviderConfig("aws", "", [region |-> Lit("us-east-1")])>>,
       <<>>,
       <<ProviderConfig("aws", "", [region |-> Lit("us-east-1")]),
         ProviderConfig("aws", "west", [region |-> VarX])>>,
       <<ProviderConfig("aws", "", [region |-> LocalL])>>,
       <<ProviderConfig("aws", "", [region |-> VStr(<<Text("us-"), Bad>>)])>>,
       <<ProviderConfig("gcp", "", EmptyMap),
         ProviderConfig("aws", "", [region |-> Lit("us-east-1")])>> >>

WebRawOpts ==
    << [name |-> Lit("web")],
       [name |-> VarX],
       [name |-> LocalL,
        tags |-> VSlice(<<DbRef, VInt(1), VBool(TRUE), VMap([k |-> VarX])>>)],
       [name |-> ModuleRef],
       [name |-> VStr(<<Text("a"), Var(<<"count", "index">>), Var(<<"path", "module">>)>>),
        size |-> VStr(<<Var(<<"self", "id">>), Var(<<"foo">>),
                        Var(<<"terraform", "workspace">>)>>)],
       [name |-> Ref(<<"local", "zz">>), size |-> Ref(<<"var", "zz">>)],
       [name |-> VMapKeyed("int", [k |-> VInt(1)])],
       [name |-> WebRef, size |-> VFloat("1.5")],
       [name |-> VOther("chan"), size |-> VStr(<<Bad>>)] >>

WebDependsOnOpts ==
    << <<>>,
       <<DbId>>,
       <<DbId, DbId>>,
       <<WebId, DbId>>,
       <<<<"module", "m">>>>,
       <<<<"nope", "x">>>>,
       <<<<"nope", "x">>, <<"module", "m">>>>,
       <<DbId, <<"module", "m", "web">>>> >>

WebProviderOpts == <<"", "aws.west", "gcp">>

Db == Resource("aws_instance", "db", "", [name |-> WebRef], <<>>)

\* the resources declared, given the one named web
ResourceOpts(web) ==
    << <<web>>,
       <<>>,
       <<web, Db>>,
       <<Db, web>>,
       <<web, Resource("aws_instance", "web", "", [name |-> Ref(<<"local", "zz">>)], <<>>)>>,
       <<Resource("gcp_disk", "d", "", [name |-> Lit("d")], <<WebId>>), web>> >>

OutputOpts ==
    << <<Output("o", [value |-> WebRef], <<>>)>>,
       <<>>,
       <<Output("o", EmptyMap, <<>>)>>,
       <<Output("o", [other |-> VInt(1)], <<>>)>>,
       <<Output("o", [value |-> Lit("v"), other |-> LocalL], <<>>)>>,
       <<Output("o", [value |-> Ref(<<"local", "zz">>)], <<>>)>>,
       <<Output("o", [value |-> VSlice(<<VarX, Lit("b")>>)], <<WebId>>)>>,
       <<Output("o", [value |-> Lit("v")], <<<<"nope", "x">>>>)>>,
       <<Output("o", [value |-> VMap([value |-> VInt(1)])], <<>>),
         Output("p", [value |-> VStr(<<Esc, Text("x}")>>)], <<>>)>> >>

LocalOpts ==
    << <<Local("l", [value |-> Lit("v")])>>,
       <<>>,
       <<Local("l", [value |-> VarX])>>,
       <<Local("l", [value |-> LocalL])>>,
       <<Local("l", [value |-> Ref(<<"local", "m">>)]), Local("m", [value |-> WebRef])>>,
       <<Local("l", [value |-> VStr(<<Bad>>)])>> >>

VariableOpts ==
    << <<Variable("x", Lit("hello"))>>,
       <<>>,
       <<Variable("x", VNil)>>,
       <<Variable("x", VarX)>>,
       <<Variable("x", Ref(<<"count", "index">>))>>,
       <<Variable("x", ModuleRef)>>,
       <<Variable("x", VSlice(<<Lit("a"), VMap([k |-> Ref(<<"path", "module">>)])>>))>>,
       <<Variable("x", LocalL)>>,
       <<Variable("x", Lit("hello")), Variable("y", Ref(<<"var", "zz">>))>> >>

Places ==
    {"providers", "resources", "webraw", "webdeps", "webprovider", "outputs",
     "locals", "variables"}

\* the number of alternatives of a place
NOpts(place) ==
    CASE place = "providers" -> Len(ProviderOpts)
      [] place = "resources" -> Len(ResourceOpts(Db))
      [] place = "webraw" -> Len(WebRawOpts)
      [] place = "webdeps" -> Len(WebDependsOnOpts)
      [] place = "webprovider" -> Len(WebProviderOpts)
      [] place = "outputs" -> Len(OutputOpts)
      [] place = "locals" -> Len(LocalOpts)
      [] place = "variables" -> Len(VariableOpts)

\* the choices: the places varied, and the alternative (not the first,
\* which is the base) taken at each
Choices ==
    UNION {{c \in [varied -> 2..10] : \A place \in varied : c[place] <= NOpts(place)}
           : varied \in {s \in SUBSET Places : Cardinality(s) <= MaxVaried}}

ConfOf(c) ==
    LET at(place) == IF place \in DOMAIN c THEN c[place] ELSE 1
        web == Resource("aws_instance", "web", WebProviderOpts[at("webprovider")],
                        WebRawOpts[at("webraw")], WebDependsOnOpts[at("webdeps")])
    IN  [ProviderConfigs |-> ProviderOpts[at("providers")],
         Resources |-> ResourceOpts(web)[at("resources")],
         Outputs |-> OutputOpts[at("outputs")],
         Locals |-> LocalOpts[at("locals")],
         Variables |-> VariableOpts[at("variables")]]

Configurations == {ConfOf(c) : c \in Choices}


(***************************************************************************)
(* buildGraph as a state machine.                                          *)
(*   conf     the configuration (never changes)                            *)
(*   b        the builder: the five name tables, key -> node               *)
(*   nodes    the heap: node -> its fields                                 *)
(*   built    the nodes whose build call has returned nil                  *)
(*   plugin   provider name -> what its plugin did when it was run         *)
(*   pc       "run" while buildGraph runs, "done" once it has returned     *)
(*   graph, err   what buildGraph returned                                 *)
(*   run, prev    the second of two runs on one configuration, and what    *)
(*                the first returned                                       *)
(*   call     the argument and result of a single call of buildValue or    *)
(*            buildDeps                                                    *)
(***************************************************************************)
Kinds == <<"provider", "resource", "output", "local", "variable">>

NoGraph ==
    [nil |-> TRUE, providers |-> EmptyBag, resources |-> EmptyBag, outputs |-> EmptyBag,
     locals |-> EmptyBag, variables |-> EmptyBag]

NoCall == [fn |-> "none"]
NoPrev == [set |-> FALSE]

Put(f, key, val) == [x \in DOMAIN f \cup {key} |-> IF x = key THEN val ELSE f[x]]

\* the nodes of a kind allocated so far
Created(kind) == Cardinality({n \in DOMAIN nodes : n[1] = kind})

Declared(kind) ==
    CASE kind = "provider" -> conf.ProviderConfigs
      [] kind = "resource" -> conf.Resources
      [] kind = "output" -> conf.Outputs
      [] kind = "local" -> conf.Locals
      [] kind = "variable" -> conf.Variables

Table(tables, kind) ==
    CASE kind = "provider" -> tables.providers
      [] kind = "resource" -> tables.resources
      [] kind = "output" -> tables.outputs
      [] kind = "local" -> tables.locals
      [] kind = "variable" -> tables.variables

\* the loops of buildGraph run one after the other
LoopDone(kind) == Created(kind) = Len(Declared(kind))
CreateTurn(i) == \A j \in 1..(i - 1) : LoopDone(Kinds[j])
AllCreated == \A j \in DOMAIN Kinds : LoopDone(Kinds[j])

\* the entries a "for range" over a table has still to visit
Unbuilt(kind) == Range(Table(b, kind)) \ built
\* A faulty order: any entry may be built once the tables are populated.
BuildTurnAnyKind(i) ==
    /\ pc = "run"
    /\ AllCreated
    /\ i = 6 => \A j \in 1..5 : Unbuilt(Kinds[j]) = {}

BuildTurn(i) ==
    /\ pc = "run"
    /\ AllCreated
    /\ \A j \in 1..(i - 1) : Unbuilt(Kinds[j]) = {}

Idle == /\ plugin = <<>> /\ run = 1 /\ prev = NoPrev /\ call = NoCall

InitBuild(c) ==
    /\ conf = c
    /\ b = newBuilder
    /\ nodes = <<>>
    /\ built = {}
    /\ graph = NoGraph
    /\ err = NoErr
    /\ pc = "run"

Init == /\ \E c \in Configurations : InitBuild(c)
        /\ Idle

\* one iteration of a loop of phase 1: allocate the node, enter it in the table
Create(kind, key, node) ==
    LET id == <<kind, Created(kind) + 1>> IN
    /\ nodes' = Put(nodes, id, node)
    /\ b' = CASE kind = "provider" -> [b EXCEPT !.providers = Put(@, key, id)]
              [] kind = "resource" -> [b EXCEPT !.resources = Put(@, key, id)]
              [] kind = "output" -> [b EXCEPT !.outputs = Put(@, key, id)]
              [] kind = "local" -> [b EXCEPT !.locals = Put(@, key, id)]
              [] kind = "variable" -> [b EXCEPT !.variables = Put(@, key, id)]
    /\ UNCHANGED <<conf, pc, built, graph, err, plugin, run, prev, call>>

CreateProvider ==
    /\ pc = "run" /\ CreateTurn(1) /\ ~LoopDone("provider")
    /\ LET p == conf.ProviderConfigs[Created("provider") + 1]
       IN  Create("provider", p.Name, providerNode(p))

CreateResource ==
    /\ pc = "run" /\ CreateTurn(2) /\ ~LoopDone("resource")
    /\ LET r == conf.Resources[Created("resource") + 1]
       IN  Create("resource", ResourceId(r), resourceNode(r))

CreateOutput ==
    /\ pc = "run" /\ CreateTurn(3) /\ ~LoopDone("output")
    /\ LET o == conf.Outputs[Created("output") + 1]
       IN  Create("output", o.Name, outputNode(o))

CreateLocal ==
    /\ pc = "run" /\ CreateTurn(4) /\ ~LoopDone("local")
    /\ LET l == conf.Locals[Created("local") + 1]
       IN  Create("local", l.Name, localNode(l))

CreateVariable ==
    /\ pc = "run" /\ CreateTurn(5) /\ ~LoopDone("variable")
    /\ LET v == conf.Variables[Created("variable") + 1]
       IN  Create("variable", v.Name, variableNode(v))

\* A faulty error path: the error is kept and the loops go on.
BuiltContinuing(id, r) ==
    /\ nodes' = [nodes EXCEPT ![id] = r.node]
    /\ built' = built \cup {id}
    /\ err' = IF r.err = NoErr THEN err ELSE r.err
    /\ UNCHANGED <<conf, b, graph, run, prev, call, pc>>

\* a build call returned r for node id: on an error buildGraph returns it
Built(id, r) ==
    /\ nodes' = [nodes EXCEPT ![id] = r.node]
    /\ IF r.err = NoErr
       THEN built' = built \cup {id} /\ UNCHANGED <<pc, err>>
       ELSE pc' = "done" /\ err' = r.err /\ UNCHANGED built
    /\ UNCHANGED <<conf, b, graph, run, prev, call>>

\* what the plugin of a provider does: as it did before if it has been run
PluginRuns(name) ==
    IF name \in DOMAIN plugin THEN {plugin[name]}
    ELSE {o \in PluginOutcomes :
            /\ o.lookup # "found" => ~o.start
            /\ ~o.start => (~o.decode /\ o.exit = 1)}

BuildProvider ==
    /\ BuildTurn(1)
    /\ \E id \in Unbuilt("provider") :
         \E o \in PluginRuns(nodes[id].config.Name) :
           \E r \in buildProvider(nodes[id], o, b) :
             /\ Built(id, r)
             /\ plugin' = Put(plugin, nodes[id].config.Name, o)

BuildResource ==
    /\ BuildTurn(2)
    /\ \E id \in Unbuilt("resource") :
         \E r \in buildResource(nodes[id], b) : Built(id, r) /\ UNCHANGED plugin

BuildOutput ==
    /\ BuildTurn(3)
    /\ \E id \in Unbuilt("output") :
         \E r \in buildOutput(nodes[id], b) : Built(id, r) /\ UNCHANGED plugin

BuildLocal ==
    /\ BuildTurn(4)
    /\ \E id \in Unbuilt("local") :
         \E r \in buildLocal(nodes[id], b) : Built(id, r) /\ UNCHANGED plugin

BuildVariable ==
    /\ BuildTurn(5)
    /\ \E id \in Unbuilt("variable") :
         \E r \in buildVariable(nodes[id], b) : Built(id, r) /\ UNCHANGED plugin

\* the slice made by appending the value of every entry of a table
Collect(table) == [n \in Range(table) |-> Cardinality({key \in DOMAIN table : table[key] = n})]

\* "put the graph together"
Assemble ==
    /\ BuildTurn(6)
    /\ graph' = [nil |-> FALSE,
                 providers |-> Collect(b.providers),
                 resources |-> Collect(b.resources),
                 outputs |-> Collect(b.outputs),
                 locals |-> Collect(b.locals),
                 variables |-> Collect(b.variables)]
    /\ pc' = "done"
    /\ UNCHANGED <<conf, b, nodes, built, err, plugin, run, prev, call>>

Next ==
    \/ CreateProvider \/ CreateResource \/ CreateOutput \/ CreateLocal \/ CreateVariable
    \/ BuildProvider \/ BuildResource \/ BuildOutput \/ BuildLocal \/ BuildVariable
    \/ Assemble

Spec == Init /\ [][Next]_vars


(***************************************************************************)
(* What the configuration declares, read from conf alone.                  *)
(***************************************************************************)
KeyOf(kind, c) == IF kind = "resource" THEN ResourceId(c) ELSE <<c.Name>>

\* the keys declared for a kind
DeclaredKeys(kind) == {KeyOf(kind, Declared(kind)[i]) : i \in DOMAIN Declared(kind)}

\* the node a declared key denotes: that of its last declaration
NodeOfKey(kind, key) ==
    LET is == {i \in DOMAIN Declared(kind) : KeyOf(kind, Declared(kind)[i]) = key}
    IN  <<kind, CHOOSE i \in is : \A j \in is : j <= i>>

\* the variable accesses written anywhere in a raw value
RECURSIVE RefsIn(_)
RefsIn(v) ==
    CASE v.k = "string" -> {v.s[i].n : i \in {j \in DOMAIN v.s : v.s[j].t = "var"}}
      [] v.k = "slice" -> UNION {RefsIn(v.e[i]) : i \in DOMAIN v.e}
      [] v.k = "map" -> UNION {RefsIn(v.m[key]) : key \in DOMAIN v.m}
      [] OTHER -> {}

\* the declared entity a reference names, if any
Referent(n) ==
    LET c == NewInterpolatedVariable(n) IN
    CASE c.cls = "local" /\ <<c.name>> \in DeclaredKeys("local") -> {NodeOfKey("local", <<c.name>>)}
      [] c.cls = "user" /\ <<c.name>> \in DeclaredKeys("variable") -> {NodeOfKey("variable", <<c.name>>)}
      [] c.cls = "resource" /\ c.id \in DeclaredKeys("resource") -> {NodeOfKey("resource", c.id)}
      [] OTHER -> {}

DuplicateFree(bag) == \A x \in BagToSet(bag) : CopiesIn(x, bag) = 1

Succeeded == pc = "done" /\ ~graph.nil
Failed == pc = "done" /\ graph.nil

GraphNodes(kind) ==
    CASE kind = "provider" -> graph.providers
      [] kind = "resource" -> graph.resources
      [] kind = "output" -> graph.outputs
      [] kind = "local" -> graph.locals
      [] kind = "variable" -> graph.variables

KindSet == Range(Kinds)

(***************************************************************************)
(* C1.  buildGraph is all-or-nothing: while it runs nothing has been       *)
(* returned; when it fails it returns no graph and an error that the build *)
(* of an entry not yet built returns; a graph is returned with a nil       *)
(* error, only when the build of every table entry has succeeded, and it   *)
(* holds exactly one node for every entry of each of the five tables.      *)
(***************************************************************************)
\* the errors the build call of a table entry can return
BuildErrors(id) ==
    LET n == nodes[id]
        results == CASE n.kind = "provider" ->
                          IF n.config.Name \in DOMAIN plugin
                          THEN buildProvider(n, plugin[n.config.Name], b)
                          ELSE {}
                     [] n.kind = "resource" -> buildResource(n, b)
                     [] n.kind = "output" -> buildOutput(n, b)
                     [] n.kind = "local" -> buildLocal(n, b)
                     [] n.kind = "variable" -> buildVariable(n, b)
    IN  {r.err : r \in results} \ {NoErr}

C1_AllOrNothing ==
    /\ pc = "run" => (graph = NoGraph /\ err = NoErr)
    /\ pc = "done" => (graph.nil <=> err # NoErr)
    /\ Failed =>
         /\ graph = NoGraph
         /\ \E kind \in KindSet : \E id \in Unbuilt(kind) : err \in BuildErrors(id)
    /\ Succeeded =>
         \A kind \in KindSet :
           /\ Range(Table(b, kind)) \subseteq built
           /\ BagToSet(GraphNodes(kind)) = Range(Table(b, kind))
           /\ DuplicateFree(GraphNodes(kind))
           /\ BagCardinality(GraphNodes(kind)) = Cardinality(DOMAIN Table(b, kind))
           /\ DOMAIN Table(b, kind) =
                {IF kind = "resource" THEN key ELSE key[1] : key \in DeclaredKeys(kind)}

\* a build failed after others had succeeded: their results are not returned
C1_Witness == Failed /\ Cardinality(built) >= 2 /\ err.e = "UnknownLocal"

(***************************************************************************)
(* C2.  After a successful build the dependencies of every provider,       *)
(* resource, output and local are, each once, exactly the declared         *)
(* entities its properties name by a local, resource or user variable      *)
(* reference, and the resources of its depends_on list; references of the  *)
(* other classes add nothing; the entity named may be declared later.      *)
(***************************************************************************)
ExpectedDeps(n) ==
    UNION {Referent(r) : r \in RefsIn(n.config.RawConfig)}
    \cup (IF n.kind \in {"resource", "output"}
          THEN {NodeOfKey("resource", n.config.DependsOn[i]) : i \in DOMAIN n.config.DependsOn}
          ELSE {})

C2_Dependencies ==
    Succeeded =>
      \A kind \in {"provider", "resource", "output", "local"} :
        \A id \in BagToSet(GraphNodes(kind)) :
          /\ BagToSet(dependencies(nodes[id])) = ExpectedDeps(nodes[id])
          /\ DuplicateFree(dependencies(nodes[id]))

\* a resource that names a local (declared after it), a resource and a
\* variable, beside references that name no entity elsewhere in the graph
C2_Witness ==
    /\ Succeeded
    /\ \E id \in BagToSet(graph.resources) :
         {n[1] : n \in BagToSet(dependencies(nodes[id]))} = {"local", "resource", "variable"}


(***************************************************************************)
(* Single calls of buildValue and buildDeps, on a builder whose tables     *)
(* hold some of the entities l, x, aws_instance.web, aws_instance.db,      *)
(* data.aws_ami.a and (a resource of type "module") module.m.              *)
(***************************************************************************)
EmptyConf ==
    [ProviderConfigs |-> <<>>, Resources |-> <<>>, Outputs |-> <<>>, Locals |-> <<>>,
     Variables |-> <<>>]

ResourceKeys == <<WebId, DbId, <<"data", "aws_ami", "a">>, <<"module", "m">>>>

\* the tables declaring the given locals, variables and resources
TablesOf(ls, vs, rs) ==
    [providers |-> <<>>,
     resources |-> [key \in {ResourceKeys[i] : i \in rs} |->
                      <<"resource", CHOOSE i \in rs : ResourceKeys[i] = key>>],
     outputs |-> <<>>,
     locals |-> [key \in ls |-> <<"local", 1>>],
     variables |-> [key \in vs |-> <<"variable", 1>>]]

InitCall(tables, c) ==
    /\ conf = EmptyConf
    /\ b = tables
    /\ nodes = <<>>
    /\ built = {}
    /\ graph = NoGraph
    /\ err = NoErr
    /\ plugin = <<>>
    /\ run = 1
    /\ prev = NoPrev
    /\ pc = "call"
    /\ call = c

ValueNames ==
    {<<"local", "l">>, <<"local", "zz">>, <<"var", "x">>, <<"var", "zz">>,
     <<"aws_instance", "web", "id">>, <<"nope", "x", "id">>,
     <<"data", "aws_ami", "a", "id">>, <<"module", "m", "out">>,
     <<"count", "index">>, <<"path", "module">>, <<"self", "id">>,
     <<"terraform", "workspace">>, <<"foo">>, <<"local", "l", "a">>}

\* the interpolated strings of at most MaxRefs variable accesses
Interpolations ==
    UNION {{VStr([i \in 1..len |-> Var(ns[i])]) : ns \in [1..len -> ValueNames]}
           : len \in 1..MaxRefs}

ValueLeaves ==
    {Ref(n) : n \in ValueNames}
    \cup {Lit("a"), VStr(<<>>), VStr(<<Esc, Text("a}")>>), VStr(<<Bad>>), VBool(TRUE),
          VInt(1), VFloat("1.5"), VOther("chan")}

ValueInputs ==
    {VNil} \cup Interpolations \cup ValueLeaves
    \cup {VSlice(<<x, y>>) : x, y \in ValueLeaves}
    \cup {VMap([name |-> x, size |-> VSlice(<<y>>)]) : x, y \in ValueLeaves}
    \cup {VMapKeyed("int", [name |-> x]) : x \in ValueLeaves}

ValueTables ==
    {TablesOf(ls, vs, rs) : ls \in SUBSET {"l"}, vs \in SUBSET {"x"},
                            rs \in {{}, {1}, {1, 3}}}

InitValue ==
    \E tables \in ValueTables, v \in ValueInputs :
      InitCall(tables, [fn |-> "buildValue", arg |-> v, out |-> [ret |-> FALSE]])

CallBuildValue ==
    /\ pc = "call" /\ call.fn = "buildValue"
    /\ \E r \in buildValue(call.arg, b) :
         call' = [call EXCEPT !.out = [ret |-> TRUE, err |-> r.err, val |-> r.val,
                                       deps |-> r.deps, depsNil |-> r.depsNil]]
    /\ pc' = "ret"
    /\ UNCHANGED <<conf, b, nodes, built, graph, err, plugin, run, prev>>

NextValue == CallBuildValue

SpecValue == InitValue /\ [][NextValue]_vars

(***************************************************************************)
(* C3.  A value whose walk succeeds and that names a local, a resource or  *)
(* a user variable absent from its table, or a module, never resolves:     *)
(* buildValue returns an error, which is the error of such a name (that of *)
(* the name itself when it is the only one): UnknownLocal, UnknownResource *)
(* or UnknownVariable for an absent target, UnsupportedReference for a     *)
(* module; and with an error it returns neither a value nor dependencies.  *)
(***************************************************************************)
\* the error the claim gives a name, NoErr for a name that resolves
NameError(n, tables) ==
    LET c == NewInterpolatedVariable(n) IN
    CASE ~c.ok -> Error("InvalidVariableName", n)
      [] c.cls = "module" -> Error("UnsupportedReference", <<c.name>>)
      [] c.cls = "local" /\ c.name \notin DOMAIN tables.locals -> Error("UnknownLocal", <<c.name>>)
      [] c.cls = "resource" /\ c.id \notin DOMAIN tables.resources ->
            Error("UnknownResource", <<c.name>>)
      [] c.cls = "user" /\ c.name \notin DOMAIN tables.variables ->
            Error("UnknownVariable", <<c.name>>)
      [] OTHER -> NoErr

WalkFails(v) == v # VNil /\ WalkErrs(v) # {}

C3_UnknownReference ==
    (pc = "ret" /\ call.fn = "buildValue") =>
      LET unresolved == {n \in RefsIn(call.arg) : NameError(n, b) # NoErr} IN
      /\ (~WalkFails(call.arg) /\ unresolved # {}) =>
           call.out.err \in {NameError(n, b) : n \in unresolved}
      /\ call.out.err # NoErr =>
           (call.out.val = VNil /\ call.out.deps = {} /\ call.out.depsNil)
      /\ call.out.err = NoErr => unresolved = {}

\* one name of each kind of failure, each the only name of its value
C3_Witness ==
    /\ pc = "ret" /\ call.fn = "buildValue"
    /\ call.out.err = Error("UnknownLocal", <<"zz">>)
    /\ RefsIn(call.arg) = {<<"local", "zz">>, <<"var", "x">>}
    /\ "x" \in DOMAIN b.variables


(***************************************************************************)
(* Single calls of buildDeps.                                              *)
(***************************************************************************)
DependsOnNames == {WebId, DbId, <<"module", "m">>, <<"nope", "x">>}

DependsOnLists == UNION {[1..len -> DependsOnNames] : len \in 0..MaxDependsOn}

ImplicitSets == SUBSET {<<"resource", 1>>, <<"local", 1>>, <<"variable", 1>>}

DepsTables == {TablesOf({"l"}, {"x"}, rs) : rs \in {{}, {1}, {1, 2}, {1, 2, 4}}}

InitDeps ==
    \E tables \in DepsTables, deps \in ImplicitSets, dependsOn \in DependsOnLists :
      InitCall(tables, [fn |-> "buildDeps", deps |-> deps, dependsOn |-> dependsOn,
                        out |-> [ret |-> FALSE]])

CallBuildDeps ==
    /\ pc = "call" /\ call.fn = "buildDeps"
    /\ LET r == buildDeps(call.deps, call.dependsOn, b)
       IN  call' = [call EXCEPT !.out = [ret |-> TRUE, err |-> r.err, allDeps |-> r.allDeps,
                                         explicitDeps |-> r.explicitDeps]]
    /\ pc' = "ret"
    /\ UNCHANGED <<conf, b, nodes, built, graph, err, plugin, run, prev>>

NextDeps == CallBuildDeps

SpecDeps == InitDeps /\ [][NextDeps]_vars

(***************************************************************************)
(* C6.  buildDeps goes through the declared names in order.  At the first  *)
(* name that is prefixed "module." it fails with UnsupportedReference, at  *)
(* the first that is no declared resource id with UnknownResource,         *)
(* whatever the implicit set holds.  Otherwise the explicit list has the   *)
(* length and order of the declared list, its i-th element the resource    *)
(* the i-th name names, and the full list is, each element once, the       *)
(* union of the implicit set and the explicit resources.                   *)
(***************************************************************************)
C6_ExplicitMerge ==
    (pc = "ret" /\ call.fn = "buildDeps") =>
      LET names == call.dependsOn
          out == call.out
          isModule(i) == Len(names[i]) >= 2 /\ names[i][1] = "module"
          rejected == {i \in DOMAIN names : isModule(i) \/ names[i] \notin DOMAIN b.resources}
      IN  IF rejected # {}
          THEN LET i == CHOOSE i \in rejected : \A j \in rejected : i <= j IN
               /\ out.err = Error(IF isModule(i) THEN "UnsupportedReference"
                                  ELSE "UnknownResource", names[i])
               /\ out.allDeps = EmptyBag /\ out.explicitDeps = <<>>
          ELSE /\ out.err = NoErr
               /\ Len(out.explicitDeps) = Len(names)
               /\ \A i \in DOMAIN names : out.explicitDeps[i] = b.resources[names[i]]
               /\ BagToSet(out.allDeps) = call.deps \cup Range(out.explicitDeps)
               /\ DuplicateFree(out.allDeps)
               /\ \A i \in DOMAIN names : BagIn(out.explicitDeps[i], out.allDeps)

\* a resource named twice that the properties also name: three mentions, one
\* element of the full list, two of the explicit list
C6_Witness ==
    /\ pc = "ret" /\ call.fn = "buildDeps"
    /\ call.dependsOn = <<WebId, WebId>>
    /\ <<"resource", 1>> \in call.deps
    /\ call.out.err = NoErr
    /\ BagCardinality(call.out.allDeps) = Cardinality(call.deps)


(***************************************************************************)
(* C4.  A resource whose provider full name is no declared provider name   *)
(* is never built and no graph is produced; when its build call is the     *)
(* one that fails (the providers are built, and every resource left has no *)
(* provider) buildGraph returns MissingProvider for it.  After a           *)
(* successful build every resource is linked to one provider node, the one *)
(* the provider table holds for its provider full name, and that node is   *)
(* in the graph's providers.                                               *)
(***************************************************************************)
DeclaredProviderNames == {conf.ProviderConfigs[i].Name : i \in DOMAIN conf.ProviderConfigs}

HasNoProvider(id) == ProviderFullName(nodes[id].config) \notin DeclaredProviderNames

C4_ProviderLinkage ==
    /\ \A id \in Range(b.resources) :
         HasNoProvider(id) => (id \notin built /\ nodes[id].provider = NoNode /\ ~Succeeded)
    /\ (/\ Failed
        /\ Unbuilt("provider") = {}
        /\ Unbuilt("resource") # {}
        /\ \A id \in Unbuilt("resource") : HasNoProvider(id))
       => \E id \in Unbuilt("resource") :
            err = Error("MissingProvider", ResourceId(nodes[id].config))
    /\ Succeeded =>
         \A id \in BagToSet(graph.resources) :
           /\ nodes[id].provider # NoNode
           /\ BagIn(nodes[id].provider, graph.providers)
           /\ nodes[id].provider = b.providers[ProviderFullName(nodes[id].config)]

\* the resource names the aliased provider aws.west, declared under the name
\* aws: the table, keyed by name, has no entry aws.west
C4_Witness ==
    /\ Failed
    /\ err = Error("MissingProvider", WebId)
    /\ \E i \in DOMAIN conf.ProviderConfigs : conf.ProviderConfigs[i].Alias = "west"
    /\ nodes[b.resources[WebId]].config.Provider = "aws.west"

(***************************************************************************)
(* C5 as claimed: the build of a variable whose default contains a         *)
(* variable access, of whatever class, fails; so that a successfully built *)
(* graph has no variable whose default contains one.                       *)
(***************************************************************************)
C5_AnyNameFails ==
    \A id \in Range(b.variables) :
      RefsIn(nodes[id].config.Default) # {} => (id \notin built /\ ~Succeeded)

(***************************************************************************)
(* C5 as amended.  A variable is built only if every name of its default   *)
(* is of class count, path, self, simple or terraform: its default is then *)
(* the walked value (nil for no default), and names no local, resource or  *)
(* user variable.  When the build call of a variable whose default         *)
(* resolves to a declared entity is the one that fails, buildGraph returns *)
(* VariableHasDependencies for it.                                         *)
(***************************************************************************)
NoEntityClasses == {"count", "path", "self", "simple", "terraform"}

\* the default walks, every name of it resolves, and one names an entity
DefaultDepends(id) ==
    LET d == nodes[id].config.Default IN
    /\ ~WalkFails(d)
    /\ \A n \in RefsIn(d) : NameError(n, b) = NoErr
    /\ \E n \in RefsIn(d) : Referent(n) # {}

C5_VariableDefaults ==
    /\ \A id \in Range(b.variables) \cap built :
         LET d == nodes[id].config.Default IN
         /\ \A n \in RefsIn(d) : NewInterpolatedVariable(n).cls \in NoEntityClasses
         /\ \A n \in RefsIn(d) : Referent(n) = {}
         /\ nodes[id].defaultValue = WalkVal(d)
         /\ d = VNil => nodes[id].defaultValue = VNil
    /\ (/\ Failed
        /\ \A kind \in {"provider", "resource", "output", "local"} : Unbuilt(kind) = {}
        /\ Unbuilt("variable") # {}
        /\ \A id \in Unbuilt("variable") : DefaultDepends(id))
       => \E id \in Unbuilt("variable") :
            err = Error("VariableHasDependencies", <<nodes[id].config.Name>>)
    /\ Succeeded => Range(b.variables) \subseteq built

\* a graph with a variable whose default is the expression ${count.index}
C5_Witness ==
    /\ Succeeded
    /\ \E id \in BagToSet(graph.variables) :
         /\ RefsIn(nodes[id].config.Default) = {<<"count", "index">>}
         /\ nodes[id].defaultValue.k = "hil"

(***************************************************************************)
(* C7.  For every provider whose plugin was looked up: no executable       *)
(* resolved gives PluginNotFound; a process that exits non-zero gives      *)
(* PluginExecutionError, whether or not the payload decoded; a malformed   *)
(* payload gives DecodeError when the exit was clean; and the provider     *)
(* holds schema metadata only if the lookup, the decode and the exit all   *)
(* succeeded, in which case it holds the metadata loaded for its name.     *)
(***************************************************************************)
C7_ProviderInfo ==
    /\ \A name \in DOMAIN plugin :
         LET o == plugin[name]
             p == nodes[b.providers[name]]
             ran == o.lookup = "found" /\ o.start
             fails(class) == Failed /\ err.e = class /\ ~p.info.loaded
         IN  /\ o.lookup = "empty" => (fails("PluginNotFound") /\ err.at = <<name>>)
             /\ (ran /\ o.exit # 0) => fails("PluginExecutionError")
             /\ (ran /\ o.exit = 0 /\ ~o.decode) => fails("DecodeError")
             /\ (ran /\ o.exit = 0 /\ o.decode) => p.info = [loaded |-> TRUE, of |-> name]
             /\ p.info.loaded => (ran /\ o.exit = 0 /\ o.decode)
    /\ \A id \in Range(b.providers) :
         nodes[id].info.loaded => nodes[id].config.Name \in DOMAIN plugin

\* the process exits non-zero and its payload is malformed
C7_Witness ==
    \E name \in DOMAIN plugin :
      /\ plugin[name].exit # 0 /\ ~plugin[name].decode /\ plugin[name].start
      /\ err.e = "PluginExecutionError"

(***************************************************************************)
(* C8.  The value of a built output is the resolved value of its property  *)
(* "value" if that is the only property of its resolved mapping, and the   *)
(* whole resolved mapping otherwise.                                       *)
(***************************************************************************)
C8_OutputValue ==
    \A id \in Range(b.outputs) \cap built :
      LET props == WalkVal(nodes[id].config.RawConfig) IN
      nodes[id].value = IF DOMAIN props.m = {"value"} THEN props.m["value"] ELSE props

\* two properties, one of them "value": the mapping is the value
C8_Witness ==
    \E id \in Range(b.outputs) \cap built :
      /\ DOMAIN nodes[id].config.RawConfig.m = {"value", "other"}
      /\ nodes[id].value.k = "map"

(***************************************************************************)
(* C9.  Once a build step has run the five tables hold every declared key  *)
(* and never change again; an entity is built only when every entry of the *)
(* kinds before its own (providers, resources, outputs, locals, variables) *)
(* is built, so that a resource, output or local is built only when every  *)
(* provider of the table has its plugin info.                              *)
(***************************************************************************)
BuildStarted == built # {} \/ plugin # <<>> \/ pc = "done"

TablesPopulated ==
    \A kind \in KindSet :
      /\ DOMAIN Table(b, kind) =
           {IF kind = "resource" THEN key ELSE key[1] : key \in DeclaredKeys(kind)}
      /\ \A key \in DeclaredKeys(kind) :
           Table(b, kind)[IF kind = "resource" THEN key ELSE key[1]] = NodeOfKey(kind, key)

KindOrder ==
    \A i, j \in DOMAIN Kinds :
      (i < j /\ \E id \in built : id[1] = Kinds[j]) => Unbuilt(Kinds[i]) = {}

InfoBeforeUse ==
    (\E id \in built : id[1] \in {"resource", "output", "local"})
      => \A id \in Range(b.providers) : nodes[id].info.loaded

Restart ==
    /\ pc = "done" /\ run = 1
    /\ prev' = [set |-> TRUE, graph |-> graph, err |-> err, nodes |-> nodes]
    /\ run' = 2
    /\ b' = newBuilder
    /\ nodes' = <<>>
    /\ built' = {}
    /\ graph' = NoGraph
    /\ err' = NoErr
    /\ pc' = "run"
    /\ UNCHANGED <<conf, plugin, call>>

NextPair == Next \/ Restart

SpecPair == Init /\ [][NextPair]_vars

(***************************************************************************)
(* C10.  Two runs on one configuration either both fail or both succeed,   *)
(* and if they succeed they return the same graph, every node with the     *)
(* same fields; only the error of two failing runs may differ.             *)
(***************************************************************************)
C10_OrderIndependence ==
    (run = 2 /\ pc = "done") =>
      /\ graph.nil <=> prev.graph.nil
      /\ ~graph.nil => (graph = prev.graph /\ nodes = prev.nodes)

\* two runs that succeed on two resources, each naming the other
C10_Witness ==
    /\ run = 2 /\ Succeeded
    /\ BagCardinality(graph.resources) = 2
    /\ \A id \in BagToSet(graph.resources) : dependencies(nodes[id]) # EmptyBag

=============================================================================
